---- MODULE Spec2Model ----
(***************************************************************************)
(* Lecture-to-notes: the generation pipeline (backend_core.generate_content*)
(* and its response parser), the history store (load_history,              *)
(* save_history) and the Streamlit session of app.py.                      *)
(*                                                                         *)
(* Python values are tagged records [t, v]:                                *)
(*   str  : v is the sequence of its characters.  A fixed message of the   *)
(*          source is one element holding the whole literal, so an        *)
(*          f-string is the concatenation of its literal parts and the     *)
(*          characters it interpolates;                                    *)
(*   list : v is the sequence of its items;                                *)
(*   dict : v is the sequence of its <<key, value>> pairs in insertion     *)
(*          order, a key being a sequence of characters;                   *)
(*   int, bool, none.                                                      *)
(***************************************************************************)
EXTENDS Integers, Sequences, FiniteSets, TLC

VARIABLES
    gemini_loaded,      \* backend_core.GEMINI_LOADED
    gen_in,             \* arguments and service behaviour of the last generate_content call
    gen_out,            \* what that call did: return value, raised exception, calls, prompt
    api_calls,          \* outbound calls to client.models.generate_content so far
    history_file,       \* content of lecture_history.json
    store_out,          \* outcome of the last load_history / save_history call
    saved_log,          \* entries passed to save_history since the file was last absent
    only_saves,         \* TRUE while nothing but save_history touched the file since then
    clock,              \* datetime.now(), one tick per formatted entry
    history,            \* st.session_state.history
    current_transcript, \* st.session_state.current_transcript
    current_audio_name, \* st.session_state.current_audio_name
    saved_notes,        \* st.session_state.saved_notes
    saved_quiz,         \* st.session_state.saved_quiz
    saved_flashcards,   \* st.session_state.saved_flashcards
    output_type,        \* st.session_state.output_type
    notes_generated,    \* st.session_state.notes_generated
    view,               \* what the last script run rendered, and the exception that ended it
    pressed,            \* the button whose handler the last script run executed
    entry_sources,      \* for each persisted history entry, the audio its artifact came from
    transcript_source,  \* the audio that st.session_state.current_transcript came from
    feedback_file,      \* content of user_feedback.json
    feedback_out,       \* outcome of the last save_feedback call
    feedback_log,       \* what the feedback file held at first, then every entry saved
    writers             \* two sessions inside save_history / save_feedback: their positions

vars == <<gemini_loaded, gen_in, gen_out, api_calls, history_file, store_out,
          saved_log, only_saves, clock, history, current_transcript,
          current_audio_name, saved_notes, saved_quiz, saved_flashcards,
          output_type, notes_generated, view, pressed, entry_sources,
          transcript_source, feedback_file, feedback_out, feedback_log, writers>>

genVars == <<gen_in, gen_out, api_calls>>
storeVars == <<history_file, store_out, saved_log, only_saves>>
appVars == <<clock, history, current_transcript, current_audio_name, saved_notes,
             saved_quiz, saved_flashcards, output_type, notes_generated, view, pressed,
             entry_sources, transcript_source>>
feedbackVars == <<feedback_file, feedback_out, feedback_log>>
raceVars == <<writers>>

----------------------------------------------------------------------------
(* Python values *)

PyStr(cs) == [t |-> "str", v |-> cs]
PyList(xs) == [t |-> "list", v |-> xs]
PyDict(ps) == [t |-> "dict", v |-> ps]
PyInt(n) == [t |-> "int", v |-> n]
PyBool(b) == [t |-> "bool", v |-> b]
PyNone == [t |-> "none", v |-> <<>>]

ShorterOf(a, b) == IF a < b THEN a ELSE b

\* How a call ends: with a value, or with an exception of the named class.
Returned(x) == [raised |-> "", ret |-> x]
Raised(exc) == [raised |-> exc, ret |-> PyNone]

IsStr(x) == x.t = "str"
IsList(x) == x.t = "list"
IsDict(x) == x.t = "dict"

\* bool(x): the truth value Python's `if x:` tests.
Truthy(x) ==
    CASE x.t = "none" -> FALSE
      [] x.t = "bool" -> x.v
      [] x.t = "int" -> x.v # 0
      [] OTHER -> Len(x.v) > 0

----------------------------------------------------------------------------
(* str methods, on sequences of characters *)

Whitespace == {" ", "\n", "\t", "\r"}
\* The grave accent U+0060, which a TLA+ string cannot hold: one character.
Backtick == "<grave>"

RECURSIVE FirstKept(_, _, _)
FirstKept(s, chars, i) ==
    IF i <= Len(s) /\ s[i] \in chars THEN FirstKept(s, chars, i + 1) ELSE i

RECURSIVE LastKept(_, _, _)
LastKept(s, chars, i) ==
    IF i >= 1 /\ s[i] \in chars THEN LastKept(s, chars, i - 1) ELSE i

\* s.strip(chars): the leading and the trailing characters that are in chars dropped.
StrStrip(s, chars) == SubSeq(s, FirstKept(s, chars, 1), LastKept(s, chars, Len(s)))

MatchAt(s, pat, i) ==
    /\ i + Len(pat) - 1 <= Len(s)
    /\ \A k \in 1..Len(pat) : s[i + k - 1] = pat[k]

Window == 16

\* min(S) of a set of indices that is not empty.
Least(S) == CHOOSE j \in S : \A k \in S : j <= k

\* The first index from i on whose character is in chars, Len(s) + 1 when there is
\* none: looked for a window at a time.
RECURSIVE FirstIn(_, _, _)
FirstOf(s, chars, last, hits) ==
    IF hits # {} THEN Least(hits)
    ELSE IF last >= Len(s) THEN Len(s) + 1
    ELSE FirstIn(s, last + 1, chars)

FirstIn(s, i, chars) ==
    FirstOf(s, chars, ShorterOf(i + Window - 1, Len(s)),
            {j \in i..ShorterOf(i + Window - 1, Len(s)) : s[j] \in chars})

\* The text from s[i] on with the occurrences of pat removed: what lies before the
\* first occurrence, then the same from behind that occurrence.
RECURSIVE RemoveFrom(_, _, _)
RemoveFirst(s, pat, i, hits) ==
    IF hits = {} THEN SubSeq(s, i, Len(s))
    ELSE SubSeq(s, i, Least(hits) - 1) \o RemoveFrom(s, pat, Least(hits) + Len(pat))

RemoveFrom(s, pat, i) == RemoveFirst(s, pat, i, {j \in i..Len(s) : MatchAt(s, pat, j)})

\* s.replace(pat, ""): every non-overlapping occurrence, found left to right, removed.
StrRemove(s, pat) == RemoveFrom(s, pat, 1)

\* s[:n]
StrHead(s, n) == SubSeq(s, 1, IF Len(s) < n THEN Len(s) ELSE n)

\* `pat in s` for two strings: pat occurs in s.
StrContains(s, pat) == \E i \in 1..(Len(s) + 1) : MatchAt(s, pat, i)

----------------------------------------------------------------------------
(* json.loads(s): json.decoder.JSONDecoder.decode with the scanner of       *)
(* json.scanner, strict.  The texts of this model are written over          *)
(* letters, digits, the JSON punctuation, the backslash, white space and    *)
(* the grave accent; they hold no \u escape, no fraction or exponent and    *)
(* none of NaN, Infinity.                                                   *)

Quote == "\""
Backslash == "\\"
Digits == <<"0", "1", "2", "3", "4", "5", "6", "7", "8", "9">>
IsDigit(c) == \E d \in 1..10 : Digits[d] = c
DigitVal(c) == (CHOOSE d \in 1..10 : Digits[d] = c) - 1

NullLit == <<"n", "u", "l", "l">>
TrueLit == <<"t", "r", "u", "e">>
FalseLit == <<"f", "a", "l", "s", "e">>

ScanOk(val, pos) == [ok |-> TRUE, val |-> val, pos |-> pos]
ScanFail(pos) == [ok |-> FALSE, val |-> PyNone, pos |-> pos]

RECURSIVE SkipWs(_, _)
SkipWs(s, i) == IF i <= Len(s) /\ s[i] \in Whitespace THEN SkipWs(s, i + 1) ELSE i

\* What a simple escape \c stands for; <<>> when \c is no simple escape.
Unescape(c) ==
    CASE c \in {Quote, Backslash, "/"} -> <<c>>
      [] c = "n" -> <<"\n">>
      [] c = "t" -> <<"\t">>
      [] c = "r" -> <<"\r">>
      [] c = "b" -> <<"<backspace>">>
      [] c = "f" -> <<"<formfeed>">>
      [] OTHER -> <<>>

\* py_scanstring, from the character after the opening quote: the run of plain
\* characters up to the next quote, backslash or control character at j, then that
\* one.
RECURSIVE ScanString(_, _, _)
StringRun(s, i, acc, j) ==
    IF j > Len(s) THEN ScanFail(j)
    ELSE IF s[j] = Quote THEN ScanOk(PyStr(acc \o SubSeq(s, i, j - 1)), j + 1)
    ELSE IF s[j] = Backslash THEN
        IF j + 1 > Len(s) \/ Unescape(s[j + 1]) = <<>> THEN ScanFail(j)
        ELSE ScanString(s, j + 2, acc \o SubSeq(s, i, j - 1) \o Unescape(s[j + 1]))
    ELSE ScanFail(j)

ScanString(s, i, acc) ==
    StringRun(s, i, acc, FirstIn(s, i, {Quote, Backslash, "\n", "\t", "\r"}))

RECURSIVE ScanDigits(_, _, _)
ScanDigits(s, i, n) ==
    IF i <= Len(s) /\ IsDigit(s[i]) THEN ScanDigits(s, i + 1, 10 * n + DigitVal(s[i]))
    ELSE ScanOk(PyInt(n), i)

\* NUMBER_RE, its integer part: -?(0|[1-9][0-9]*)
ScanNatural(s, j) ==
    IF j > Len(s) \/ ~IsDigit(s[j]) THEN ScanFail(j)
    ELSE IF s[j] = "0" THEN ScanOk(PyInt(0), j + 1)
    ELSE ScanDigits(s, j, 0)

Negated(r) == IF r.ok THEN ScanOk(PyInt(0 - r.val.v), r.pos) ELSE r

ScanNumber(s, i) ==
    IF s[i] = "-" THEN Negated(ScanNatural(s, i + 1)) ELSE ScanNatural(s, i)

\* dict(pairs): a repeated key keeps its first place and takes the last value.
DictPut(ps, k, x) ==
    IF \E n \in 1..Len(ps) : ps[n][1] = k
    THEN [n \in 1..Len(ps) |-> IF ps[n][1] = k THEN <<k, x>> ELSE ps[n]]
    ELSE Append(ps, <<k, x>>)

RECURSIVE ScanOnce(_, _), ScanItems(_, _, _), ScanMembers(_, _, _)

\* After an item, at s[j]: the end of the array, or a comma and the next item.
ItemEnd(s, i, items, j) ==
    IF j > Len(s) THEN ScanFail(i)
    ELSE IF s[j] = "]" THEN ScanOk(PyList(items), j + 1)
    ELSE IF s[j] = "," THEN ScanItems(s, SkipWs(s, j + 1), items)
    ELSE ScanFail(j)

ItemScanned(s, i, acc, r) ==
    IF ~r.ok THEN ScanFail(i)
    ELSE ItemEnd(s, i, Append(acc, r.val), SkipWs(s, r.pos))

\* The items of a JSONArray that is not empty, the next one at s[i].
ScanItems(s, i, acc) == ItemScanned(s, i, acc, ScanOnce(s, i))

ArrayFrom(s, j) ==
    IF j <= Len(s) /\ s[j] = "]" THEN ScanOk(PyList(<<>>), j + 1)
    ELSE ScanItems(s, j, <<>>)

\* JSONArray, from the character after "[".
ScanArray(s, i) == ArrayFrom(s, SkipWs(s, i))

\* After the key of a member: the colon at s[c], the value, then at s[j] the end
\* of the object, or a comma and at s[n] the quote of the next key.
NextKey(s, ps, n) ==
    IF n > Len(s) THEN ScanFail(n)
    ELSE IF s[n] # Quote THEN ScanFail(n)
    ELSE ScanMembers(s, n + 1, ps)

MemberEnd(s, c, ps, j) ==
    IF j > Len(s) THEN ScanFail(c)
    ELSE IF s[j] = "}" THEN ScanOk(PyDict(ps), j + 1)
    ELSE IF s[j] # "," THEN ScanFail(j)
    ELSE NextKey(s, ps, SkipWs(s, j + 1))

ValueScanned(s, c, acc, key, r) ==
    IF ~r.ok THEN ScanFail(c)
    ELSE MemberEnd(s, c, DictPut(acc, key, r.val), SkipWs(s, r.pos))

Colon(s, i, acc, key, c) ==
    IF c > Len(s) THEN ScanFail(i)
    ELSE IF s[c] # ":" THEN ScanFail(c)
    ELSE ValueScanned(s, c, acc, key, ScanOnce(s, SkipWs(s, c + 1)))

KeyScanned(s, i, acc, k) ==
    IF ~k.ok THEN ScanFail(i)
    ELSE Colon(s, i, acc, k.val.v, SkipWs(s, k.pos))

\* One "key": value member, from the character after the key's opening quote.
ScanMembers(s, i, acc) == KeyScanned(s, i, acc, ScanString(s, i, <<>>))

ObjectFrom(s, j) ==
    IF j > Len(s) THEN ScanFail(j)
    ELSE IF s[j] = "}" THEN ScanOk(PyDict(<<>>), j + 1)
    ELSE IF s[j] = Quote THEN ScanMembers(s, j + 1, <<>>)
    ELSE ScanFail(j)

\* JSONObject, from the character after "{".
ScanObject(s, i) == ObjectFrom(s, SkipWs(s, i))

\* scan_once: one value starting at s[i].
ScanOnce(s, i) ==
    IF i > Len(s) THEN ScanFail(i)
    ELSE IF s[i] = Quote THEN ScanString(s, i + 1, <<>>)
    ELSE IF s[i] = "{" THEN ScanObject(s, i + 1)
    ELSE IF s[i] = "[" THEN ScanArray(s, i + 1)
    ELSE IF MatchAt(s, NullLit, i) THEN ScanOk(PyNone, i + 4)
    ELSE IF MatchAt(s, TrueLit, i) THEN ScanOk(PyBool(TRUE), i + 4)
    ELSE IF MatchAt(s, FalseLit, i) THEN ScanOk(PyBool(FALSE), i + 5)
    ELSE IF s[i] = "-" \/ IsDigit(s[i]) THEN ScanNumber(s, i)
    ELSE ScanFail(i)

\* JSONDecoder.decode: one value, and nothing but white space after it.
WholeText(s, r) ==
    IF r.ok /\ SkipWs(s, r.pos) = Len(s) + 1
    THEN [ok |-> TRUE, val |-> r.val]
    ELSE [ok |-> FALSE, val |-> PyNone]

\* json.loads(s): [ok |-> TRUE, val] or, for a JSONDecodeError, [ok |-> FALSE].
JsonLoads(s) == WholeText(s, ScanOnce(s, SkipWs(s, 1)))

\* What json.loads hands to its caller: the value, or a JSONDecodeError.
Decoded(parsed) ==
    IF parsed.ok THEN Returned(parsed.val) ELSE Raised("JSONDecodeError")

----------------------------------------------------------------------------
(* json.dump(obj, f, indent=4): json.encoder with ensure_ascii, the item    *)
(* separator "," and the key separator ": ", every item on a line of its    *)
(* own, indented by four spaces a level.                                     *)

\* The parts from..to of a sequence of texts, concatenated.
RECURSIVE JoinRange(_, _, _)
JoinRange(parts, from, to) ==
    IF from > to THEN <<>>
    ELSE IF from = to THEN parts[from]
    ELSE LET mid == (from + to) \div 2
         IN JoinRange(parts, from, mid) \o JoinRange(parts, mid + 1, to)

JoinAll(parts) == JoinRange(parts, 1, Len(parts))

\* ESCAPE_DCT of json.encoder, for the characters of this model.
EscapeChar(c) ==
    CASE c \in {Quote, Backslash} -> <<Backslash, c>>
      [] c = "\n" -> <<Backslash, "n">>
      [] c = "\t" -> <<Backslash, "t">>
      [] c = "\r" -> <<Backslash, "r">>
      [] c = "<backspace>" -> <<Backslash, "b">>
      [] c = "<formfeed>" -> <<Backslash, "f">>
      [] OTHER -> <<c>>

\* A str, encoded; a fixed message (one element) is spelled by its marker.
JsonString(cs) == <<Quote>> \o JoinAll([n \in 1..Len(cs) |-> EscapeChar(cs[n])]) \o <<Quote>>

RECURSIVE JsonInt(_)
JsonInt(n) == IF n < 10 THEN <<Digits[n + 1]>> ELSE JsonInt(n \div 10) \o <<Digits[(n % 10) + 1]>>

IndentWidth == 4
NewlineIndent(level) == <<"\n">> \o [k \in 1..(IndentWidth * level) |-> " "]

RECURSIVE JsonDump(_, _)
JsonDump(x, level) ==
    CASE x.t = "str" -> JsonString(x.v)
      [] x.t = "int" -> IF x.v < 0 THEN <<"-">> \o JsonInt(0 - x.v) ELSE JsonInt(x.v)
      [] x.t = "none" -> NullLit
      [] x.t = "bool" -> IF x.v THEN TrueLit ELSE FalseLit
      [] x.t = "list" ->
            IF x.v = <<>> THEN <<"[", "]">>
            ELSE <<"[">> \o JoinAll([n \in 1..Len(x.v) |->
                            (IF n > 1 THEN <<",">> ELSE <<>>) \o NewlineIndent(level + 1)
                            \o JsonDump(x.v[n], level + 1)])
                         \o NewlineIndent(level) \o <<"]">>
      [] x.t = "dict" ->
            IF x.v = <<>> THEN <<"{", "}">>
            ELSE <<"{">> \o JoinAll([n \in 1..Len(x.v) |->
                            (IF n > 1 THEN <<",">> ELSE <<>>) \o NewlineIndent(level + 1)
                            \o JsonString(x.v[n][1]) \o <<":", " ">>
                            \o JsonDump(x.v[n][2], level + 1)])
                         \o NewlineIndent(level) \o <<"}">>

----------------------------------------------------------------------------
(* The history store of backend_core: load_history, save_history,            *)
(* format_history_entry.  lecture_history.json is absent, or holds a text,   *)
(* or holds bytes that do not decode as text.                                *)

AbsentFile == [kind |-> "absent", text |-> <<>>]
TextFile(text) == [kind |-> "text", text |-> text]
UndecodableFile == [kind |-> "undecodable", text |-> <<>>]

HistoryCap == 20

\* json.load(f) on an existing file: f.read(), then json.loads.
JsonLoadFile(file) ==
    IF file.kind = "undecodable" THEN Raised("UnicodeDecodeError")
    ELSE Decoded(JsonLoads(file.text))

\* except json.JSONDecodeError: return []
ExceptJSONDecodeError(r) ==
    IF r.raised = "JSONDecodeError" THEN Returned(PyList(<<>>)) ELSE r

\* load_history(): [] for no file and for a JSONDecodeError, else what json.load
\* returns or raises.
load_history(file) ==
    IF file.kind = "absent" THEN Returned(PyList(<<>>))
    ELSE ExceptJSONDecodeError(JsonLoadFile(file))

\* Mutant: the entry appended, the list cut to its first 20.
InsertAndCut_append(items, entry) ==
    LET all == Append(items, entry)
    IN SubSeq(all, 1, IF Len(all) < HistoryCap THEN Len(all) ELSE HistoryCap)

\* history.insert(0, entry); history = history[:20]
InsertAndCut(items, entry) ==
    LET all == <<entry>> \o items
    IN SubSeq(all, 1, IF Len(all) < HistoryCap THEN Len(all) ELSE HistoryCap)

\* The body of save_history after load_history() has answered with loaded.  A
\* value that is no list has no insert.
InsertAndDump(file, loaded, entry) ==
    IF loaded.raised # "" THEN [file |-> file, raised |-> loaded.raised, ret |-> PyNone]
    ELSE IF ~IsList(loaded.ret) THEN [file |-> file, raised |-> "AttributeError", ret |-> PyNone]
    ELSE [file |-> TextFile(JsonDump(PyList(InsertAndCut(loaded.ret.v, entry)), 0)),
          raised |-> "", ret |-> PyList(InsertAndCut(loaded.ret.v, entry))]

\* save_history(entry) on the file as it is: the file afterwards, and the list
\* returned or the exception raised.
save_history(file, entry) == InsertAndDump(file, load_history(file), entry)

\* format_history_entry(audio_name, content_type, notes_content) at the tick-th
\* reading of datetime.now(): the timestamp is the digits of the tick.
format_history_entry(audio_name, content_type, notes_content, tick) ==
    PyDict(<< <<(<<"audio_name">>), audio_name>>,
              <<(<<"content_type">>), PyStr(<<content_type>>)>>,
              <<(<<"notes">>), notes_content>>,
              <<(<<"timestamp">>), PyStr(JsonInt(tick))>> >>)

----------------------------------------------------------------------------
(* The feedback store of backend_core: save_feedback on user_feedback.json.   *)

\* The first half of save_feedback: [] for no file and for a JSONDecodeError, else
\* what json.load returns or raises.
load_feedback(file) ==
    IF file.kind = "absent" THEN Returned(PyList(<<>>))
    ELSE ExceptJSONDecodeError(JsonLoadFile(file))

\* The second half: feedback_list.append(data), which only a list has, and
\* json.dump(feedback_list, f, indent=4).
AppendAndDump(file, loaded, data) ==
    IF loaded.raised # "" THEN [file |-> file, raised |-> loaded.raised]
    ELSE IF ~IsList(loaded.ret) THEN [file |-> file, raised |-> "AttributeError"]
    ELSE [file |-> TextFile(JsonDump(PyList(Append(loaded.ret.v, data)), 0)), raised |-> ""]

\* save_feedback(data) on the file as it is: the file afterwards and the exception
\* raised.
save_feedback(file, data) == AppendAndDump(file, load_feedback(file), data)

\* feedback_data of the feedback form, at the tick-th reading of datetime.now().
FeedbackEntry(tick, audio, type, rating, comments) ==
    PyDict(<< <<(<<"timestamp">>), PyStr(JsonInt(tick))>>,
              <<(<<"audio">>), audio>>,
              <<(<<"output_type">>), PyStr(<<type>>)>>,
              <<(<<"rating">>), PyInt(rating)>>,
              <<(<<"comments">>), PyStr(comments)>> >>)

----------------------------------------------------------------------------
(* The generative service is the environment.  A response text is written  *)
(* here the way a JSON encoder writes a value, then cut short, fenced or   *)
(* padded; the parser above never sees the value, only the text.           *)

RECURSIVE JsonText(_)
JsonText(x) ==
    CASE x.t = "str" -> JsonString(x.v)
      [] x.t = "int" -> IF x.v < 0 THEN <<"-">> \o JsonInt(0 - x.v) ELSE JsonInt(x.v)
      [] x.t = "none" -> NullLit
      [] x.t = "bool" -> IF x.v THEN TrueLit ELSE FalseLit
      [] x.t = "list" ->
            <<"[">> \o JoinAll([n \in 1..Len(x.v) |->
                        (IF n > 1 THEN <<",", " ">> ELSE <<>>) \o JsonText(x.v[n])])
                    \o <<"]">>
      [] x.t = "dict" ->
            <<"{">> \o JoinAll([n \in 1..Len(x.v) |->
                        (IF n > 1 THEN <<",", " ">> ELSE <<>>)
                        \o JsonString(x.v[n][1]) \o <<":", " ">> \o JsonText(x.v[n][2])])
                    \o <<"}">>

----------------------------------------------------------------------------
(* backend_core.generate_content *)

ContentTypes == {"Notes", "Quiz", "Flashcards"}

\* language_names.get(target_lang_code, "English")
LanguageName(code) ==
    CASE code = "en" -> "English" [] code = "ta" -> "Tamil" [] code = "te" -> "Telugu"
      [] code = "hi" -> "Hindi" [] code = "ml" -> "Malayalam" [] code = "kn" -> "Kannada"
      [] code = "bn" -> "Bengali" [] code = "mr" -> "Marathi" [] code = "gu" -> "Gujarati"
      [] code = "es" -> "Spanish" [] code = "fr" -> "French" [] code = "de" -> "German"
      [] OTHER -> "English"

\* The f-string prompt of a supported content type.
BuildPrompt(content_type, target_language, transcript) ==
    CASE content_type = "Notes" ->
            PyStr(<<"You are a note-generation assistant. Translate the following transcript into **",
                    target_language,
                    "**. Then, summarize [...] must be generated ONLY in **",
                    target_language,
                    "**. [...] TRANSCRIPT: ">> \o transcript)
      [] content_type = "Quiz" ->
            PyStr(<<"Based on the lecture transcript, [...] generate 5 multiple-choice quiz questions. [...] must be in **",
                    target_language,
                    "**. TRANSCRIPT:\n\n">> \o transcript)
      [] content_type = "Flashcards" ->
            PyStr(<<"Translate the lecture transcript into **",
                    target_language,
                    "**. Then, extract 10 key terms [...] must be entirely in **",
                    target_language,
                    "**. TRANSCRIPT:\n\n">> \o transcript)

\* `schema` is set (and truthy) for Quiz and Flashcards, None for Notes.
HasSchema(content_type) == content_type \in {"Quiz", "Flashcards"}

NotInitializedMsg ==
    PyStr(<<"Generative AI Failed: Gemini API not initialized. Please set the GEMINI_API_KEY.">>)
InvalidContentTypeMsg == PyStr(<<"Invalid content type selected.">>)
ApiErrorMsg ==
    PyStr(<<"Gemini API Error: Please check your API key and network connection. Error: ", "{e}">>)
GenerationErrorMsg == PyStr(<<"Error during generation: ", "{e}">>)

FenceJson == <<Backtick, Backtick, Backtick, "j", "s", "o", "n">>
ExcerptLen == 200

\* Mutant: the text not stripped of white space before the markers are removed.
CleanJsonText_no_outer_strip(text) == StrStrip(StrRemove(text, FenceJson), {Backtick})

\* response.text.strip().replace("```json", "").strip("`")
CleanJsonText(text) == StrStrip(StrRemove(StrStrip(text, Whitespace), FenceJson), {Backtick})

\* Mutant: the excerpt taken from the cleaned text instead of the raw response.
JsonParsingFailedMsg_cleaned(text) ==
    PyStr(<<"JSON Parsing Failed. The AI did not output valid JSON. Raw output: ">>
          \o StrHead(CleanJsonText(text), ExcerptLen) \o <<"...">>)

\* f"JSON Parsing Failed. ... Raw output: {response.text[:200]}..."
JsonParsingFailedMsg(text) ==
    PyStr(<<"JSON Parsing Failed. The AI did not output valid JSON. Raw output: ">>
          \o StrHead(text, ExcerptLen) \o <<"...">>)

\* response.text: the text of a response, None for a response that holds none.
ResponseText(svc) == IF svc.kind = "text" THEN PyStr(svc.text) ELSE PyNone

\* Mutant: the parsed value checked to be a list, anything else rejected as a
\* parse failure.
DecodedList(parsed) ==
    IF parsed.ok /\ IsList(parsed.val) THEN Returned(parsed.val)
    ELSE Raised("JSONDecodeError")

TryBlock_validating(content_type, svc) ==
    IF svc.kind \in {"APIError", "Exception"} THEN Raised(svc.kind)
    ELSE IF HasSchema(content_type) THEN
        IF svc.kind = "no_text" THEN Raised("AttributeError")
        ELSE DecodedList(JsonLoads(CleanJsonText(svc.text)))
    ELSE Returned(ResponseText(svc))

\* The try block: the one call of client.models.generate_content, which raises
\* APIError or another exception or answers, and the processing of the answer.
TryBlock(content_type, svc) ==
    IF svc.kind \in {"APIError", "Exception"} THEN Raised(svc.kind)
    ELSE IF HasSchema(content_type) THEN
        IF svc.kind = "no_text" THEN Raised("AttributeError")
        ELSE Decoded(JsonLoads(CleanJsonText(svc.text)))
    ELSE Returned(ResponseText(svc))

\* Mutant: no `except Exception` clause after the two specific ones.
ExceptClauses_specific_only(attempt, svc) ==
    CASE attempt.raised = "APIError" -> Returned(ApiErrorMsg)
      [] attempt.raised = "JSONDecodeError" -> Returned(JsonParsingFailedMsg(svc.text))
      [] OTHER -> attempt

\* The except clauses, in order: APIError, json.JSONDecodeError, Exception.  Every
\* exception the try block raises is an Exception.
ExceptClauses(attempt, svc) ==
    CASE attempt.raised = "" -> attempt
      [] attempt.raised = "APIError" -> Returned(ApiErrorMsg)
      [] attempt.raised = "JSONDecodeError" -> Returned(JsonParsingFailedMsg(svc.text))
      [] OTHER -> Returned(GenerationErrorMsg)

\* A return before the prompt is built: no prompt, no outbound call.
EarlyReturn(msg) == [raised |-> "", ret |-> msg, calls |-> 0, prompt |-> PyNone]

\* What the function hands back after its one call.
AfterCall(done, prompt) ==
    [raised |-> done.raised, ret |-> done.ret, calls |-> 1, prompt |-> prompt]

\* The function from the prompt templates on, for a supported content type.
PromptAndCall(transcript, content_type, target_lang_code, svc) ==
    AfterCall(ExceptClauses(TryBlock(content_type, svc), svc),
              BuildPrompt(content_type, LanguageName(target_lang_code), transcript))

\* Mutant: the content type checked before GEMINI_LOADED.
generate_content_type_first(loaded, transcript, content_type, target_lang_code, svc) ==
    IF content_type \notin ContentTypes THEN EarlyReturn(InvalidContentTypeMsg)
    ELSE IF ~loaded THEN EarlyReturn(NotInitializedMsg)
    ELSE PromptAndCall(transcript, content_type, target_lang_code, svc)

\* Mutant: no final else branch, an unknown content type treated as Notes.
generate_content_default_notes(loaded, transcript, content_type, target_lang_code, svc) ==
    IF ~loaded THEN EarlyReturn(NotInitializedMsg)
    ELSE PromptAndCall(transcript,
                       IF content_type \in ContentTypes THEN content_type ELSE "Notes",
                       target_lang_code, svc)

\* generate_content(transcript, content_type, target_lang_code) when the service
\* behaves as svc: its return value or the exception it lets escape, the outbound
\* calls it made and the prompt it built.
generate_content(loaded, transcript, content_type, target_lang_code, svc) ==
    IF ~loaded THEN EarlyReturn(NotInitializedMsg)
    ELSE IF content_type \notin ContentTypes THEN EarlyReturn(InvalidContentTypeMsg)
    ELSE PromptAndCall(transcript, content_type, target_lang_code, svc)

----------------------------------------------------------------------------
(* Inputs: what the service may answer, and what a caller may pass. *)

KeyQuestion == <<"q", "u", "e", "s", "t", "i", "o", "n">>
KeyOptions == <<"o", "p", "t", "i", "o", "n", "s">>
KeyCorrect == <<"c", "o", "r", "r", "e", "c", "t">>
KeyTerm == <<"t", "e", "r", "m">>
KeyDefinition == <<"d", "e", "f", "i", "n", "i", "t", "i", "o", "n">>

Str1(c) == PyStr(<<c>>)
Options(ks) == PyDict([n \in 1..Len(ks) |-> <<(<<ks[n]>>), Str1("x")>>])
OptionsABC == Options(<<"A", "B", "C">>)

\* A quiz item as the Quiz schema describes it, with the given `correct`.
QuizItem(c) ==
    PyDict(<< <<KeyQuestion, Str1("q")>>, <<KeyOptions, OptionsABC>>, <<KeyCorrect, Str1(c)>> >>)
Flashcard == PyDict(<< <<KeyTerm, Str1("t")>>, <<KeyDefinition, Str1("d")>> >>)

\* Arrays the service may send: quizzes the Quiz schema allows; arrays of objects
\* that miss a key of the schema or break one of its constraints; flashcards;
\* arrays whose items are not objects.
ArrayValues ==
    { PyList(<<QuizItem("A")>>),
      PyList(<<QuizItem("B"), QuizItem("C")>>),
      PyList(<<QuizItem("A"), QuizItem("B"), QuizItem("C"), QuizItem("A"), QuizItem("B")>>),
      PyList(<<QuizItem("D")>>),
      PyList(<<PyDict(<< <<KeyOptions, OptionsABC>>, <<KeyCorrect, Str1("A")>> >>)>>),
      PyList(<<PyDict(<< <<KeyQuestion, Str1("q")>>, <<KeyCorrect, Str1("A")>> >>)>>),
      PyList(<<PyDict(<< <<KeyQuestion, Str1("q")>>, <<KeyOptions, OptionsABC>> >>)>>),
      PyList(<<PyDict(<< <<KeyQuestion, Str1("q")>>, <<KeyOptions, Str1("x")>>,
                         <<KeyCorrect, Str1("A")>> >>)>>),
      PyList(<<QuizItem("A"), PyDict(<<>>)>>),
      PyList(<<Flashcard>>),
      PyList(<<Flashcard, PyDict(<< <<KeyTerm, Str1("t")>> >>)>>),
      PyList(<<>>),
      PyList(<<PyInt(1)>>), PyList(<<PyNone>>), PyList(<<PyStr(KeyOptions)>>),
      PyList(<<PyStr(FenceJson)>>), PyList(<<PyStr(<<Backslash>> \o FenceJson)>>),
      PyList(<<PyList(<<>>)>>) }

\* Valid JSON that is no array.
NonArrays ==
    { PyDict(<<>>), QuizItem("A"), Flashcard, Str1("s"), PyStr(<<>>), PyInt(5), PyInt(0),
      PyNone, PyBool(TRUE) }


\* A text cut after its first k characters: a truncated response.
CutAt(text, k) == SubSeq(text, 1, k)
LongQuizText ==
    JsonText(PyList(<<QuizItem("A"), QuizItem("B"), QuizItem("C"), QuizItem("A"), QuizItem("B")>>))
ShortQuizText == JsonText(PyList(<<QuizItem("A")>>))
CutTexts ==
    {CutAt(ShortQuizText, k) : k \in 0..(Len(ShortQuizText) - 1)}
    \cup {CutAt(LongQuizText, k) : k \in {ExcerptLen - 1, ExcerptLen, ExcerptLen + 1,
                                          Len(LongQuizText) - 1}}

ArrayPayloads == {JsonText(x) : x \in ArrayValues}
Payloads == {JsonText(x) : x \in ArrayValues \cup NonArrays} \cup CutTexts

Fence3 == <<Backtick, Backtick, Backtick>>
\* The wrappers a response may come in.  The first five are the fenced-code markers
\* with the tag json or with none, and white space around them.
JsonFences == {"json", "bare", "spaced_json", "tight_json", "tight_bare"}
Fences == {"plain", "padded", "upper", "open_json"} \cup JsonFences
Fenced(f, p) ==
    CASE f = "plain" -> p
      [] f = "padded" -> <<" ", "\n">> \o p \o <<"\n", " ">>
      [] f = "json" -> FenceJson \o <<"\n">> \o p \o <<"\n">> \o Fence3
      [] f = "bare" -> Fence3 \o <<"\n">> \o p \o <<"\n">> \o Fence3
      [] f = "spaced_json" -> <<" ", "\n">> \o FenceJson \o <<" ", "\n">> \o p
                              \o <<"\n">> \o Fence3 \o <<"\n">>
      [] f = "tight_json" -> FenceJson \o p \o Fence3
      [] f = "tight_bare" -> Fence3 \o p \o Fence3
      [] f = "upper" -> Fence3 \o <<"J", "S", "O", "N", "\n">> \o p \o <<"\n">> \o Fence3
      [] f = "open_json" -> FenceJson \o <<"\n">> \o p

TextResponse(f, p) == [kind |-> "text", text |-> Fenced(f, p), payload |-> p, fence |-> f]
Failure(k) == [kind |-> k, text |-> <<>>, payload |-> <<>>, fence |-> "plain"]
ServiceBehaviours ==
    {TextResponse(f, p) : f \in Fences, p \in Payloads}
    \cup {Failure("APIError"), Failure("Exception"), Failure("no_text")}

CallerContentTypes == ContentTypes \cup {"Summary", "quiz"}
Transcripts == {<<"h", "i">>, <<>>}
LangCodes == {"ta", "zz"}

NoCall == [raised |-> "", ret |-> PyNone, calls |-> 0, prompt |-> PyNone, done |-> FALSE]

----------------------------------------------------------------------------
(* The output display section of app.py: what one run of the script renders  *)
(* from the session state.  The calls into streamlit and fpdf are taken to   *)
(* return; an exception of the script's own expressions ends the run, and    *)
(* nothing below that point is rendered.                                     *)

HasKey(d, k) == \E n \in 1..Len(d.v) : d.v[n][1] = k
Lookup(d, k) == d.v[CHOOSE n \in 1..Len(d.v) : d.v[n][1] = k][2]
DictKeys(d) == {d.v[n][1] : n \in 1..Len(d.v)}

\* `key in x`: "yes" or "no", or the TypeError of a value that is no container.
InTest(key, x) ==
    CASE IsDict(x) -> IF HasKey(x, key) THEN "yes" ELSE "no"
      [] IsStr(x) -> IF StrContains(x.v, key) THEN "yes" ELSE "no"
      [] IsList(x) -> IF \E n \in 1..Len(x.v) : x.v[n] = PyStr(key) THEN "yes" ELSE "no"
      [] OTHER -> "TypeError"

\* all('options' in q for q in quiz_data) from item n on: the first answer that
\* is not "yes" ends it.
RECURSIVE AllHaveOptions(_, _)
AllHaveOptions(items, n) ==
    IF n > Len(items) THEN "yes"
    ELSE IF InTest(KeyOptions, items[n]) = "yes" THEN AllHaveOptions(items, n + 1)
    ELSE InTest(KeyOptions, items[n])

\* x[key] for a str key: the exception it raises, "" when it yields a value.
Subscript(x, key) ==
    IF ~IsDict(x) THEN "TypeError"
    ELSE IF HasKey(x, key) THEN "" ELSE "KeyError"

\* x.get(...), x.items(), x.keys(): only a dict has them.
DictMethod(x) == IF IsDict(x) THEN "" ELSE "AttributeError"

\* No "Check" button pressed in this run.
NoCheck == [item |-> 0, answer |-> PyNone]

\* The "Check Q{i}" button of item n, pressed with the radio at check.answer.
CheckButton(q, n, check) ==
    IF check.item # n THEN ""
    ELSE IF Subscript(q, KeyCorrect) # "" THEN Subscript(q, KeyCorrect)
    ELSE IF check.answer = Lookup(q, KeyCorrect) THEN "correct" ELSE "incorrect"

\* One pass of the quiz loop: the question, the radio over the option keys, the
\* button.  An exception name, or "", "correct", "incorrect".
QuizItemShown(q, n, check) ==
    IF Subscript(q, KeyQuestion) # "" THEN Subscript(q, KeyQuestion)
    ELSE IF Subscript(q, KeyOptions) # "" THEN Subscript(q, KeyOptions)
    ELSE IF DictMethod(Lookup(q, KeyOptions)) # "" THEN DictMethod(Lookup(q, KeyOptions))
    ELSE CheckButton(q, n, check)

Exceptions == {"TypeError", "KeyError", "AttributeError"}

\* for i, q in enumerate(quiz_data), from item n on; seen is the button's answer
\* so far.
RECURSIVE QuizLoop(_, _, _, _)
QuizLoop(items, n, check, seen) ==
    IF n > Len(items) THEN seen
    ELSE IF QuizItemShown(items[n], n, check) \in Exceptions
         THEN QuizItemShown(items[n], n, check)
    ELSE QuizLoop(items, n + 1, check,
                  IF QuizItemShown(items[n], n, check) = "" THEN seen
                  ELSE QuizItemShown(items[n], n, check))

\* The Quiz branch of format_structured_output, from item n on: the exception it
\* raises, "" when it returns.
RECURSIVE FormatQuiz(_, _)
FormatQuiz(items, n) ==
    IF n > Len(items) THEN ""
    ELSE IF DictMethod(items[n]) # "" THEN DictMethod(items[n])
    ELSE IF HasKey(items[n], KeyOptions) /\ DictMethod(Lookup(items[n], KeyOptions)) # ""
         THEN DictMethod(Lookup(items[n], KeyOptions))
    ELSE FormatQuiz(items, n + 1)

\* The f.get(...) of every item of a list of flashcards, from item n on.
RECURSIVE FlashcardGets(_, _)
FlashcardGets(items, n) ==
    IF n > Len(items) THEN ""
    ELSE IF DictMethod(items[n]) # "" THEN DictMethod(items[n])
    ELSE FlashcardGets(items, n + 1)

\* format_structured_output(data, output_type): the exception it raises, "" when
\* it returns its text (which only the download buttons take).
format_structured_output(data, type) ==
    IF type = "Quiz" /\ IsList(data) THEN FormatQuiz(data.v, 1)
    ELSE IF type = "Flashcards" /\ IsList(data) THEN FlashcardGets(data.v, 1)
    ELSE ""

\* create_download_buttons(content_data, content_type)
create_download_buttons(content_data, content_type) ==
    IF Truthy(content_data) /\ (IsList(content_data) \/ IsDict(content_data))
    THEN format_structured_output(content_data, content_type)
    ELSE ""

\* A tab's branch, then its download buttons.
ThenDownloads(shown, content_data, content_type) ==
    IF shown \in Exceptions THEN shown
    ELSE IF create_download_buttons(content_data, content_type) # ""
         THEN create_download_buttons(content_data, content_type)
    ELSE shown

\* if isinstance(quiz_data, list) and all(...): the loop, else the debug view.
\* What is shown, and what the pressed Check button answered.
QuizBranch(quiz_data, check) ==
    IF ~IsList(quiz_data) \/ AllHaveOptions(quiz_data.v, 1) = "no"
    THEN [shown |-> "debug", check |-> ""]
    ELSE IF AllHaveOptions(quiz_data.v, 1) = "TypeError"
    THEN [shown |-> "TypeError", check |-> ""]
    ELSE IF QuizLoop(quiz_data.v, 1, check, "") \in Exceptions
    THEN [shown |-> QuizLoop(quiz_data.v, 1, check, ""), check |-> ""]
    ELSE [shown |-> "structured", check |-> QuizLoop(quiz_data.v, 1, check, "")]

\* with tabs[1]: the Quiz tab.
QuizTab(quiz_data, check) ==
    IF ~Truthy(quiz_data) THEN [shown |-> "info", check |-> ""]
    ELSE [shown |-> ThenDownloads(QuizBranch(quiz_data, check).shown, quiz_data, "Quiz"),
          check |-> QuizBranch(quiz_data, check).check]

\* if isinstance(flashcards, list): the expanders, else the debug view.
FlashcardsBranch(flashcards) ==
    IF ~IsList(flashcards) THEN "debug"
    ELSE IF FlashcardGets(flashcards.v, 1) # "" THEN FlashcardGets(flashcards.v, 1)
    ELSE "structured"

\* with tabs[2]: the Flashcards tab.
FlashcardsTab(flashcards) ==
    IF ~Truthy(flashcards) THEN "info"
    ELSE ThenDownloads(FlashcardsBranch(flashcards), flashcards, "Flashcards")

\* The tabs in order: an exception in one ends the run.
TabsInOrder(quiz, flash) ==
    IF quiz.shown \in Exceptions
    THEN [notes |-> "shown", quiz |-> quiz.shown, flashcards |-> "unrendered",
          check |-> quiz.check, error |-> quiz.shown]
    ELSE [notes |-> "shown", quiz |-> quiz.shown, flashcards |-> flash,
          check |-> quiz.check, error |-> IF flash \in Exceptions THEN flash ELSE ""]

\* The display section: no tabs without notes, else the three tabs.
RenderPage(notes, quiz_data, flashcards, check) ==
    IF ~Truthy(notes)
    THEN [notes |-> "hidden", quiz |-> "hidden", flashcards |-> "hidden",
          check |-> "", error |-> ""]
    ELSE TabsInOrder(QuizTab(quiz_data, check), FlashcardsTab(flashcards))

\* A script run that an exception of a handler ended before the display section.
HandlerFailed(exc) ==
    [notes |-> "unrendered", quiz |-> "unrendered", flashcards |-> "unrendered",
     check |-> "", error |-> exc]

----------------------------------------------------------------------------
(* State outside each part of the program, as the module is loaded. *)

InitGenVars ==
    /\ gen_in = [transcript |-> <<>>, content_type |-> "Notes", target_lang_code |-> "en",
                 svc |-> Failure("no_text")]
    /\ gen_out = NoCall
    /\ api_calls = 0

InitStoreVars ==
    /\ history_file = AbsentFile
    /\ store_out = [op |-> "none", raised |-> "", ret |-> PyNone]
    /\ saved_log = <<>>
    /\ only_saves = TRUE

InitFeedbackVars ==
    /\ feedback_file = AbsentFile
    /\ feedback_out = [raised |-> ""]
    /\ feedback_log = <<>>

\* No session is inside save_history or save_feedback.
InitRaceVars == writers = <<>>

\* The session state of app.py but its history, before any button was pressed.
InitSessionVars ==
    /\ clock = 0
    /\ pressed = "none"
    /\ transcript_source = PyNone
    /\ current_transcript = PyNone
    /\ current_audio_name = PyNone
    /\ saved_notes = PyNone
    /\ saved_quiz = PyNone
    /\ saved_flashcards = PyNone
    /\ output_type = "Notes"
    /\ notes_generated = FALSE
    /\ view = RenderPage(PyNone, PyNone, PyNone, NoCheck)

\* A session that found no history file.
InitAppVars ==
    /\ history = PyList(<<>>)
    /\ entry_sources = <<>>
    /\ InitSessionVars

----------------------------------------------------------------------------
(* SpecGen: one call of generate_content on every input. *)

InitGen ==
    /\ gemini_loaded \in BOOLEAN
    /\ gen_in \in [transcript : Transcripts, content_type : CallerContentTypes,
                   target_lang_code : LangCodes, svc : ServiceBehaviours]
    /\ gen_out = NoCall
    /\ api_calls = 0
    /\ InitStoreVars
    /\ InitAppVars
    /\ InitFeedbackVars
    /\ InitRaceVars

GenerateContent ==
    /\ ~gen_out.done
    /\ \E r \in {generate_content(gemini_loaded, gen_in.transcript, gen_in.content_type,
                                    gen_in.target_lang_code, gen_in.svc)} :
          /\ gen_out' = [raised |-> r.raised, ret |-> r.ret, calls |-> r.calls,
                         prompt |-> r.prompt, done |-> TRUE]
          /\ api_calls' = api_calls + r.calls
    /\ UNCHANGED <<gemini_loaded, feedbackVars, raceVars, gen_in, storeVars, appVars>>

NextGen == GenerateContent

SpecGen == InitGen /\ [][NextGen]_vars

----------------------------------------------------------------------------
(* Properties of generate_content, checked under SpecGen. *)

Called == gen_out.done
SchemaBound == gemini_loaded /\ HasSchema(gen_in.content_type)
Svc == gen_in.svc

\* C3: with GEMINI_LOADED false, generate_content returns the fixed "not
\* initialized" string for every content type, transcript and language, and makes
\* no outbound call.
C3_NotInitializedShortCircuit ==
    (Called /\ ~gemini_loaded) =>
        /\ gen_out.ret = NotInitializedMsg
        /\ gen_out.raised = ""
        /\ gen_out.calls = 0
        /\ api_calls = 0

\* C3 witness: an uninitialized client was asked for something no known content
\* type names, with a service that would have answered.
C3_Witness ==
    /\ Called /\ ~gemini_loaded
    /\ gen_in.content_type = "Summary"
    /\ Svc.kind = "text"
    /\ gen_out.ret = NotInitializedMsg

\* The response text is not valid JSON once the wrapper is stripped.
InvalidAfterStripping == Svc.kind = "text" /\ ~JsonLoads(CleanJsonText(Svc.text)).ok

\* C4: for a schema-bound request whose response text is not valid JSON after
\* wrapper stripping, generate_content raises nothing and returns a string, not a
\* list: the fixed diagnostic, then the first 200 characters of the raw response
\* text, then "...".
C4_DiagnosticOnParseFailure ==
    (Called /\ SchemaBound /\ InvalidAfterStripping) =>
        /\ gen_out.raised = ""
        /\ IsStr(gen_out.ret)
        /\ ~IsList(gen_out.ret)
        /\ Len(gen_out.ret.v) = ShorterOf(Len(Svc.text), ExcerptLen) + 2
        /\ gen_out.ret.v[1] = "JSON Parsing Failed. The AI did not output valid JSON. Raw output: "
        /\ \A k \in 1..ShorterOf(Len(Svc.text), ExcerptLen) : gen_out.ret.v[k + 1] = Svc.text[k]
        /\ gen_out.ret.v[Len(gen_out.ret.v)] = "..."

\* C4 witness: a fenced quiz response cut off after more than 200 characters was
\* answered with the diagnostic.
C4_Witness ==
    /\ Called /\ SchemaBound
    /\ Svc.fence = "json" /\ Svc.payload = CutAt(LongQuizText, ExcerptLen + 1)
    /\ Len(Svc.text) > ExcerptLen
    /\ IsStr(gen_out.ret)

\* What the same call returns when the service sends the payload with no wrapper.
UnwrappedResult ==
    generate_content(gemini_loaded, gen_in.transcript, gen_in.content_type,
                     gen_in.target_lang_code, TextResponse("plain", Svc.payload)).ret

\* C5 as stated: whatever the language tag of the fence, a fenced JSON array is
\* parsed to the value the unwrapped array is parsed to.
C5_AnyTagFenceIgnored ==
    (Called /\ SchemaBound /\ Svc.kind = "text" /\ Svc.payload \in ArrayPayloads
        /\ Svc.fence \in JsonFences \cup {"upper"}) =>
        gen_out.ret = UnwrappedResult

\* C5 amended: a JSON array fenced by backticks with the tag json in lower case or
\* with no tag, closing backticks and white space around them, is parsed to the
\* list the unwrapped array is parsed to.
C5_JsonFenceIgnored ==
    (Called /\ SchemaBound /\ Svc.kind = "text" /\ Svc.payload \in ArrayPayloads
        /\ Svc.fence \in JsonFences) =>
        /\ IsList(gen_out.ret)
        /\ gen_out.ret = UnwrappedResult

\* C5 witness: a quiz array inside a json fence with white space around it came
\* back as the list of its items.
C5_Witness ==
    /\ Called /\ SchemaBound
    /\ Svc.fence = "spaced_json" /\ Svc.payload = ShortQuizText
    /\ gen_out.ret = PyList(<<QuizItem("A")>>)

\* The strings generate_content returns in place of content.
IsErrorString(x) ==
    /\ IsStr(x)
    /\ \/ x \in {NotInitializedMsg, InvalidContentTypeMsg, ApiErrorMsg, GenerationErrorMsg}
       \/ Len(x.v) > 0 /\ x.v[1] = JsonParsingFailedMsg(<<>>).v[1]

\* C6 as stated: a schema-bound request returns a list or an error string, never a
\* parsed value of another shape.
C6_OnlyArraysReturned ==
    (Called /\ SchemaBound /\ Svc.kind = "text") =>
        IsList(gen_out.ret) \/ IsErrorString(gen_out.ret)

\* C6 amended: the parsed value is returned with no check of its shape.  A response
\* that is valid JSON but no array comes back as the object, string, number or None
\* it denotes, which is not a list.
C6_NonArrayReturnedAsParsed ==
    \A x \in NonArrays :
        (Called /\ SchemaBound /\ Svc.kind = "text" /\ Svc.payload = JsonText(x)
            /\ Svc.fence \in JsonFences \cup {"plain", "padded"}) =>
            gen_out.raised = "" /\ gen_out.ret = x /\ ~IsList(gen_out.ret)

\* C6 witness: a quiz request answered with one JSON object returned that dict.
C6_Witness ==
    /\ Called /\ SchemaBound /\ gen_in.content_type = "Quiz"
    /\ Svc.fence = "plain" /\ Svc.payload = JsonText(QuizItem("A"))
    /\ gen_out.ret = QuizItem("A")

\* C9 as stated: an unknown content type always ends in the invalid-request result,
\* with no prompt and no outbound call.
C9_UnknownTypeIsInvalidRequest ==
    (Called /\ gen_in.content_type \notin ContentTypes) =>
        /\ gen_out.ret = InvalidContentTypeMsg
        /\ gen_out.prompt = PyNone
        /\ gen_out.calls = 0

\* C9 amended: an unknown content type never builds a prompt nor makes an outbound
\* call, and nothing is raised; the call returns the fixed "Invalid content type
\* selected." string when the client is initialized and the fixed "not initialized"
\* string when it is not.
C9_UnknownTypeRejected ==
    (Called /\ gen_in.content_type \notin ContentTypes) =>
        /\ gen_out.raised = ""
        /\ gen_out.ret = IF gemini_loaded THEN InvalidContentTypeMsg ELSE NotInitializedMsg
        /\ gen_out.prompt = PyNone
        /\ gen_out.calls = 0
        /\ api_calls = 0

\* C9 witness: an initialized client was asked for "Summary" of a non-empty
\* transcript and refused.
C9_Witness ==
    /\ Called /\ gemini_loaded
    /\ gen_in.content_type = "Summary" /\ gen_in.transcript # <<>>
    /\ gen_out.ret = InvalidContentTypeMsg

\* C10: with an initialized client and a supported content type, one call of
\* generate_content makes exactly one outbound call, also when that call fails, and
\* then returns an error string; no call of generate_content raises.
C10_OneCallErrorsAsData ==
    /\ Called => gen_out.raised = ""
    /\ (Called /\ gemini_loaded /\ gen_in.content_type \in ContentTypes) =>
        /\ gen_out.calls = 1
        /\ api_calls = 1
        /\ Svc.kind \in {"APIError", "Exception"} =>
              gen_out.ret \in {ApiErrorMsg, GenerationErrorMsg}

\* C10 witness: the outbound call of a Notes request failed outside the API's own
\* error class, and the caller got the error string.
C10_Witness ==
    /\ Called /\ gemini_loaded
    /\ gen_in.content_type = "Notes" /\ Svc.kind = "Exception"
    /\ gen_out.ret = GenerationErrorMsg /\ api_calls = 1

----------------------------------------------------------------------------
(* SpecStore: the history file under save_history and load_history, with the *)
(* file removed (the Clear History button) or damaged from outside.          *)

MaxSaves == 22

\* The entry of the tick-th call.  save_history does not look into its entry; the
\* entries differ in their timestamps, so any change of order or content shows.
EntryAt(tick) == format_history_entry(Str1("a"), "Notes", Str1("n"), tick)

InitStore ==
    /\ gemini_loaded = TRUE
    /\ InitGenVars
    /\ InitStoreVars
    /\ InitAppVars
    /\ InitFeedbackVars
    /\ InitRaceVars

SaveHistory ==
    /\ clock < MaxSaves
    /\ \E r \in {save_history(history_file, EntryAt(clock + 1))} :
          /\ history_file' = r.file
          /\ store_out' = [op |-> "save", raised |-> r.raised, ret |-> r.ret]
          /\ saved_log' = IF r.raised = "" THEN Append(saved_log, EntryAt(clock + 1))
                                          ELSE saved_log
    /\ clock' = clock + 1
    /\ UNCHANGED <<only_saves, gemini_loaded, feedbackVars, raceVars, genVars, history,
                   current_transcript,
                   current_audio_name, saved_notes, saved_quiz, saved_flashcards,
                   output_type, notes_generated, view, pressed, entry_sources,
                   transcript_source>>

LoadHistory ==
    /\ \E r \in {load_history(history_file)} :
          store_out' = [op |-> "load", raised |-> r.raised, ret |-> r.ret]
    /\ UNCHANGED <<history_file, saved_log, only_saves, gemini_loaded, feedbackVars,
                   raceVars, genVars, appVars>>

\* os.remove(core.HISTORY_FILE), guarded by os.path.exists.
RemoveHistoryFile ==
    /\ history_file.kind # "absent"
    /\ history_file' = AbsentFile
    /\ saved_log' = <<>>
    /\ only_saves' = TRUE
    /\ store_out' = [op |-> "remove", raised |-> "", ret |-> PyNone]
    /\ UNCHANGED <<gemini_loaded, feedbackVars, raceVars, genVars, appVars>>

\* What a damaged file may hold: its text cut short (an interrupted write), valid
\* JSON that is no array, or bytes that are no text.
DamagedFiles(file) ==
    {TextFile(CutAt(file.text, k)) : k \in {0, Len(file.text) \div 2, Len(file.text) - 1}}
    \cup {TextFile(JsonText(x)) : x \in {PyDict(<<>>), PyNone, Str1("s")}}
    \cup {UndecodableFile}

DamageHistoryFile ==
    /\ history_file.kind = "text"
    /\ only_saves
    /\ \E damaged \in DamagedFiles(history_file) :
          history_file' = damaged
    /\ only_saves' = FALSE
    /\ store_out' = [op |-> "damage", raised |-> "", ret |-> PyNone]
    /\ UNCHANGED <<saved_log, gemini_loaded, feedbackVars, raceVars, genVars, appVars>>

NextStore == SaveHistory \/ LoadHistory \/ RemoveHistoryFile \/ DamageHistoryFile

SpecStore == InitStore /\ [][NextStore]_vars

----------------------------------------------------------------------------
(* Properties of the history store, checked under SpecStore. *)

\* The last m entries of a log, the newest first.
NewestFirst(log, m) == [k \in 1..m |-> log[Len(log) + 1 - k]]

\* C1: from an absent file, after n >= 1 calls of save_history and nothing else
\* writing the file, load_history() returns the min(n, 20) entries saved last, the
\* newest first, and the last call returned that same list.
C1_NewestTwentyKept ==
    (only_saves /\ Len(saved_log) >= 1) =>
        LET n == Len(saved_log)
            kept == NewestFirst(saved_log, ShorterOf(n, HistoryCap))
        IN /\ load_history(history_file) = Returned(PyList(kept))
           /\ Len(kept) <= HistoryCap
           /\ kept[1] = saved_log[n]
           /\ store_out.op = "save" => store_out.raised = "" /\ store_out.ret = PyList(kept)

\* C1 witness: the 21st save in a row has just returned 20 entries, the first of
\* them the entry of that call, and the entry of the first call is gone.
C1_Witness ==
    /\ only_saves /\ Len(saved_log) = HistoryCap + 1
    /\ store_out.op = "save" /\ Len(store_out.ret.v) = HistoryCap
    /\ store_out.ret.v[1] = saved_log[HistoryCap + 1]
    /\ \A k \in 1..HistoryCap : store_out.ret.v[k] # saved_log[1]

\* The file holds a well-formed JSON array.
HoldsArray(file) ==
    file.kind = "text" /\ JsonLoads(file.text).ok /\ IsList(JsonLoads(file.text).val)

\* C2 as stated: load_history() never raises and returns a list, the empty one
\* whenever the file is absent or holds anything but a well-formed JSON array, and
\* no save_history call raises.
C2_LoadNeverFaults ==
    LET r == load_history(history_file)
    IN /\ r.raised = ""
       /\ IsList(r.ret)
       /\ ~HoldsArray(history_file) => r.ret = PyList(<<>>)
       /\ store_out.op = "save" => store_out.raised = ""

----------------------------------------------------------------------------
(* SpecFeedback: save_feedback called again and again on a feedback file that *)
(* is absent, holds an array, or was damaged before.                         *)

MaxFeedback == 22

\* The entry of the tick-th call; the entries differ in timestamp and rating.
FeedbackAt(tick) == FeedbackEntry(tick, Str1("a"), "Notes", (tick % 5) + 1, <<"c">>)

\* What the feedback file may hold at first: nothing, an array, a text cut short,
\* valid JSON that is no array, bytes that are no text.
FeedbackFilesAtFirst ==
    {AbsentFile, UndecodableFile}
    \cup {TextFile(JsonDump(x, 0)) :
            x \in {PyList(<<>>), PyList(<<FeedbackAt(0)>>), PyDict(<<>>), PyNone, Str1("s")}}
    \cup {TextFile(CutAt(JsonDump(PyList(<<FeedbackAt(0)>>), 0), k)) : k \in {0, 1, 40}}

\* The array a file holds, the empty one when it holds none.
ArrayHeld(file) ==
    IF file.kind = "text" /\ JsonLoads(file.text).ok /\ IsList(JsonLoads(file.text).val)
    THEN JsonLoads(file.text).val.v ELSE <<>>

InitFeedback ==
    /\ gemini_loaded = TRUE
    /\ InitGenVars
    /\ InitStoreVars
    /\ InitAppVars
    /\ InitRaceVars
    /\ feedback_file \in FeedbackFilesAtFirst
    /\ feedback_out = [raised |-> ""]
    /\ feedback_log = ArrayHeld(feedback_file)

SaveFeedback ==
    /\ clock < MaxFeedback
    /\ \E r \in {save_feedback(feedback_file, FeedbackAt(clock + 1))} :
          /\ feedback_file' = r.file
          /\ feedback_out' = [raised |-> r.raised]
    /\ feedback_log' = Append(feedback_log, FeedbackAt(clock + 1))
    /\ clock' = clock + 1
    /\ UNCHANGED <<gemini_loaded, genVars, storeVars, raceVars, history, current_transcript,
                   current_audio_name, saved_notes, saved_quiz, saved_flashcards,
                   output_type, notes_generated, view, pressed, entry_sources,
                   transcript_source>>

NextFeedback == SaveFeedback

SpecFeedback == InitFeedback /\ [][NextFeedback]_vars

----------------------------------------------------------------------------
(* Properties of the feedback store, checked under SpecFeedback. *)

\* After every call so far, the file holds the array it held at first (empty for
\* an absent file and for a text that is no JSON) with every entry saved since
\* added at the end in call order: nothing removed, nothing changed, no cap.
AppendOnly ==
    /\ feedback_file.kind = "text"
    /\ JsonLoads(feedback_file.text) = [ok |-> TRUE, val |-> PyList(feedback_log)]

\* C11: the feedback store is append-only and uncapped, an absent or corrupt file
\* being taken for the empty array: no save_feedback call raises, and after the
\* calls the file holds the first array followed by the entries saved, in order.
C11_FeedbackAppendOnly ==
    /\ feedback_out.raised = ""
    /\ clock >= 1 => AppendOnly

\* The part of C11 the code keeps: on a file that is absent, holds an array or
\* holds a text that is no JSON.
C11_AppendOnlyOnReadable ==
    (clock >= 1 /\ feedback_out.raised = "") => AppendOnly

----------------------------------------------------------------------------
(* Spec: one browser session of app.py.  Every step is one run of the script: *)
(* the handler of the button pressed, then the display section.              *)

MaxRuns == 2

\* uploaded_file.name
UploadNames == {Str1("a"), Str1("b")}

\* languages[lang_name] with the select box as it comes up.
SelectedLangCode == "en"

\* What the service answers to the Notes prompt.
NotesBehaviours == {TextResponse("plain", <<"n">>), Failure("no_text")}

\* What the service answers to a Quiz or Flashcards prompt: values in a json
\* fence, a text cut short, a failure.
StudyToolBehaviours ==
    {TextResponse("json", JsonText(x)) : x \in
        { PyList(<<QuizItem("A")>>),
          PyList(<<QuizItem("D")>>),
          PyList(<<PyDict(<< <<KeyOptions, OptionsABC>>, <<KeyCorrect, Str1("A")>> >>)>>),
          PyList(<<PyDict(<< <<KeyQuestion, Str1("q")>>, <<KeyCorrect, Str1("A")>> >>)>>),
          PyList(<<PyDict(<< <<KeyQuestion, Str1("q")>>, <<KeyOptions, OptionsABC>> >>)>>),
          PyList(<<PyInt(1)>>),
          PyList(<<PyStr(KeyTerm)>>),
          PyList(<<Flashcard>>),
          QuizItem("A") }}
    \cup {TextResponse("plain", CutAt(ShortQuizText, 10)), Failure("APIError")}

\* The radio "Select Output Type for Step 3", once one is selected.
NextOutputTypes == {"Quiz", "Flashcards"}

\* lecture_history.json as an earlier session left it: not there, or holding the
\* Notes of audio "a".
EarlierHistoryFiles == {AbsentFile, TextFile(JsonDump(PyList(<<EntryAt(0)>>), 0))}

\* if 'history' not in st.session_state: ... = core.load_history()
Init ==
    /\ gemini_loaded \in BOOLEAN
    /\ InitGenVars
    /\ history_file \in EarlierHistoryFiles
    /\ store_out = [op |-> "none", raised |-> "", ret |-> PyNone]
    /\ saved_log = <<>>
    /\ only_saves = TRUE
    /\ history = load_history(history_file).ret
    /\ entry_sources = [n \in 1..Len(history.v) |-> Str1("a")]
    /\ InitSessionVars
    /\ InitFeedbackVars
    /\ InitRaceVars

\* The audios behind the entries of the file once save_history has answered with
\* saved to an entry made from the transcript of source.
SourcesAfter(saved, source) ==
    IF saved.raised = "" THEN InsertAndCut(entry_sources, source) ELSE entry_sources

\* The rest of the "Transcribe & Save Notes" handler once generate_content has
\* returned notes and save_history has answered with saved: an exception of
\* save_history is caught and shown, and the script goes on to the display section.
NotesSaved(name, transcript, notes, saved) ==
    /\ saved_quiz' = PyNone
    /\ saved_flashcards' = PyNone
    /\ current_transcript' = PyStr(transcript)
    /\ transcript_source' = name
    /\ current_audio_name' = name
    /\ saved_notes' = notes
    /\ output_type' = "Notes"
    /\ notes_generated' = TRUE
    /\ history_file' = saved.file
    /\ history' = IF saved.raised = "" THEN saved.ret ELSE history
    /\ entry_sources' = SourcesAfter(saved, name)
    /\ view' = RenderPage(notes, PyNone, PyNone, NoCheck)

\* if st.button("Transcribe & Save Notes"), with a file uploaded.
TranscribeAndSaveNotes ==
    /\ clock < MaxRuns
    /\ \E name \in UploadNames, transcript \in Transcripts, svc \in NotesBehaviours :
          \E g \in {generate_content(gemini_loaded, transcript, "Notes", SelectedLangCode, svc)} :
             /\ NotesSaved(name, transcript, g.ret,
                           save_history(history_file,
                                        format_history_entry(name, "Notes", g.ret, clock + 1)))
             /\ api_calls' = api_calls + g.calls
    /\ clock' = clock + 1
    /\ pressed' = "transcribe"
    /\ UNCHANGED <<gemini_loaded, feedbackVars, raceVars, gen_in, gen_out, store_out, saved_log, only_saves>>

\* The artifact in its slot.
SlotAfter(slot, output_to_generate, gen_content, before) ==
    IF output_to_generate = slot THEN gen_content ELSE before

\* The rest of the "Generate ..." handler once generate_content has returned
\* gen_content and save_history has answered with saved: nothing catches an
\* exception of save_history, which ends the run.
StudyToolSaved(output_to_generate, gen_content, saved) ==
    /\ output_type' = output_to_generate
    /\ saved_quiz' = SlotAfter("Quiz", output_to_generate, gen_content, saved_quiz)
    /\ saved_flashcards' =
          SlotAfter("Flashcards", output_to_generate, gen_content, saved_flashcards)
    /\ history_file' = saved.file
    /\ history' = IF saved.raised = "" THEN saved.ret ELSE history
    /\ entry_sources' = SourcesAfter(saved, transcript_source)
    /\ view' = IF saved.raised # "" THEN HandlerFailed(saved.raised)
               ELSE RenderPage(saved_notes,
                               SlotAfter("Quiz", output_to_generate, gen_content, saved_quiz),
                               SlotAfter("Flashcards", output_to_generate, gen_content,
                                         saved_flashcards),
                               NoCheck)

\* if st.button(f"Generate {output_to_generate}"), shown when notes were generated
\* and the transcript is not empty.
GenerateStudyTool ==
    /\ clock < MaxRuns
    /\ notes_generated /\ Truthy(current_transcript)
    /\ \E output_to_generate \in NextOutputTypes, svc \in StudyToolBehaviours :
          \E g \in {generate_content(gemini_loaded, current_transcript.v, output_to_generate,
                                    SelectedLangCode, svc)} :
             /\ StudyToolSaved(output_to_generate, g.ret,
                               save_history(history_file,
                                            format_history_entry(current_audio_name,
                                                                 output_to_generate, g.ret,
                                                                 clock + 1)))
             /\ api_calls' = api_calls + g.calls
    /\ clock' = clock + 1
    /\ pressed' = "generate"
    /\ UNCHANGED <<gemini_loaded, feedbackVars, raceVars, gen_in, gen_out, store_out, saved_log, only_saves,
                   current_transcript, transcript_source, current_audio_name, saved_notes,
                   notes_generated>>

\* if submit, with the slider at either end.  The feedback form is in the display
\* section after the tabs: it is on the page when there are notes and the run got
\* through the tabs.  Nothing catches an exception of save_feedback, which ends
\* the run.
SubmitFeedback ==
    /\ clock < MaxRuns
    /\ view.error = "" /\ Truthy(saved_notes)
    /\ \E rating \in {1, 5} :
          \E data \in {FeedbackEntry(clock + 1, current_audio_name, output_type, rating,
                                     <<"c">>)} :
             \E r \in {save_feedback(feedback_file, data)} :
                /\ feedback_file' = r.file
                /\ feedback_out' = [raised |-> r.raised]
                /\ feedback_log' = IF r.raised = "" THEN Append(feedback_log, data)
                                   ELSE feedback_log
                /\ view' = IF r.raised # "" THEN HandlerFailed(r.raised)
                           ELSE RenderPage(saved_notes, saved_quiz, saved_flashcards, NoCheck)
    /\ clock' = clock + 1
    /\ pressed' = "feedback"
    /\ UNCHANGED <<gemini_loaded, raceVars, genVars, storeVars, history, entry_sources,
                   current_transcript, transcript_source, current_audio_name, saved_notes,
                   saved_quiz, saved_flashcards, output_type, notes_generated>>

\* The sidebar is the last part of the script: it is on the page when the run got
\* there, with its buttons when the history is not empty.
SidebarShown == view.error = "" /\ Truthy(history)

\* entry['notes'] into the slot of entry['content_type'].
Restored(slot, entry, before) ==
    IF Lookup(entry, <<"content_type">>) = PyStr(<<slot>>)
    THEN Lookup(entry, <<"notes">>) ELSE before

\* if st.sidebar.button(...) of one history entry.
LoadHistoryEntry ==
    /\ SidebarShown
    /\ \E i \in 1..Len(history.v) :
          \E entry \in {history.v[i]} :
             /\ current_audio_name' = Lookup(entry, <<"audio_name">>)
             /\ output_type' = Lookup(entry, <<"content_type">>).v[1]
             /\ saved_notes' = Restored("Notes", entry, saved_notes)
             /\ saved_quiz' = Restored("Quiz", entry, saved_quiz)
             /\ saved_flashcards' = Restored("Flashcards", entry, saved_flashcards)
             /\ view' = RenderPage(Restored("Notes", entry, saved_notes),
                                   Restored("Quiz", entry, saved_quiz),
                                   Restored("Flashcards", entry, saved_flashcards), NoCheck)
    /\ pressed' = "load"
    /\ UNCHANGED <<gemini_loaded, feedbackVars, raceVars, genVars, storeVars, clock, history,
                   entry_sources, current_transcript, transcript_source, notes_generated>>

\* Mutant: the session state reset, the file left in place.
ClearHistory_file_kept ==
    /\ SidebarShown
    /\ history_file' = history_file
    /\ history' = PyList(<<>>)
    /\ entry_sources' = entry_sources
    /\ saved_notes' = PyNone
    /\ saved_quiz' = PyNone
    /\ saved_flashcards' = PyNone
    /\ view' = RenderPage(PyNone, PyNone, PyNone, NoCheck)
    /\ pressed' = "clear"
    /\ UNCHANGED <<gemini_loaded, feedbackVars, raceVars, genVars, store_out, saved_log, only_saves, clock,
                   current_transcript, transcript_source, current_audio_name, output_type,
                   notes_generated>>

\* if st.sidebar.button("Clear History")
ClearHistory ==
    /\ SidebarShown
    /\ history_file' = AbsentFile
    /\ history' = PyList(<<>>)
    /\ entry_sources' = <<>>
    /\ saved_notes' = PyNone
    /\ saved_quiz' = PyNone
    /\ saved_flashcards' = PyNone
    /\ view' = RenderPage(PyNone, PyNone, PyNone, NoCheck)
    /\ pressed' = "clear"
    /\ UNCHANGED <<gemini_loaded, feedbackVars, raceVars, genVars, store_out, saved_log, only_saves, clock,
                   current_transcript, transcript_source, current_audio_name, output_type,
                   notes_generated>>

\* What the radio of a quiz item may stand at: one of the option keys, or nothing.
RadioAnswers(q) == {PyStr(k) : k \in DictKeys(Lookup(q, KeyOptions))} \cup {PyNone}

\* if st.button(f"Check Q{i+1}"), on the page when the quiz loop got through.
CheckQuizAnswer ==
    /\ view.error = "" /\ view.quiz = "structured"
    /\ \E i \in 1..Len(saved_quiz.v) :
          \E user_answer \in RadioAnswers(saved_quiz.v[i]) :
             view' = RenderPage(saved_notes, saved_quiz, saved_flashcards,
                                [item |-> i, answer |-> user_answer])
    /\ pressed' = "check"
    /\ UNCHANGED <<gemini_loaded, feedbackVars, raceVars, genVars, storeVars, clock, history,
                   entry_sources, current_transcript, transcript_source,
                   current_audio_name, saved_notes, saved_quiz, saved_flashcards,
                   output_type, notes_generated>>

Next ==
    \/ TranscribeAndSaveNotes
    \/ GenerateStudyTool
    \/ SubmitFeedback
    \/ LoadHistoryEntry
    \/ ClearHistory
    \/ CheckQuizAnswer

Spec == Init /\ [][Next]_vars

----------------------------------------------------------------------------
(* Properties of the session, checked under Spec. *)

\* What a tab shows when its script got through it.
TabViews == {"hidden", "info", "structured", "debug"}

\* C7 as stated: whatever is stored as the Quiz or Flashcards artifact, the Quiz
\* tab and the Flashcards tab (and format_structured_output behind their download
\* buttons) show the structured view or the raw-debug view, and no run of the
\* script ends in an exception.
C7_RenderingNeverCrashes ==
    /\ view.quiz \in TabViews
    /\ view.flashcards \in TabViews
    /\ view.error = ""

\* `correct` of a quiz item is a key of its `options`; an item that is no object
\* or lacks one of the two is not judged.
CorrectAmongOptions(q) ==
    (IsDict(q) /\ HasKey(q, KeyOptions) /\ HasKey(q, KeyCorrect)
              /\ IsDict(Lookup(q, KeyOptions)))
        => /\ IsStr(Lookup(q, KeyCorrect))
           /\ Lookup(q, KeyCorrect).v \in DictKeys(Lookup(q, KeyOptions))

QuizArtifactHolds(x) == IsList(x) => \A n \in 1..Len(x.v) : CorrectAmongOptions(x.v[n])

\* The Quiz entries of a history list hold the invariant.
QuizEntriesHold(entries) ==
    IsList(entries) =>
        \A n \in 1..Len(entries.v) :
            Lookup(entries.v[n], <<"content_type">>) = PyStr(<<"Quiz">>)
                => QuizArtifactHolds(Lookup(entries.v[n], <<"notes">>))

EntriesOf(loaded) == IF loaded.ok /\ IsList(loaded.val) THEN loaded.val.v ELSE <<>>

\* The entries lecture_history.json holds.
FileEntries(file) == IF file.kind = "text" THEN EntriesOf(JsonLoads(file.text)) ELSE <<>>

\* Every entry of old is in new, behind what was put in front of it.
Kept(old, new) ==
    /\ Len(old) <= Len(new)
    /\ SubSeq(new, Len(new) - Len(old) + 1, Len(new)) = old

\* new is old with one entry put in front and its 20th entry cut off.
Truncated(old, new) ==
    /\ Len(old) = HistoryCap
    /\ Len(new) = HistoryCap
    /\ SubSeq(new, 2, HistoryCap) = SubSeq(old, 1, HistoryCap - 1)

\* No entry of old was removed on the way to new, but by the truncation.
NoneRemoved(old, new) == Kept(old, new) \/ Truncated(old, new)

\* The run of Clear History leaves no file, an empty load_history(), an empty
\* session history, and the feedback file as it was.
Cleared ==
    /\ history_file' = AbsentFile
    /\ load_history(history_file') = Returned(PyList(<<>>))
    /\ history' = PyList(<<>>)
    /\ feedback_file' = feedback_file

\* C12: Clear History is the only run that removes history entries other than the
\* truncation to 20: after it the file is gone, load_history() returns the empty
\* list and the session history is empty, and the feedback file is unchanged;
\* every other run keeps every entry of the file and of the session history, but
\* for the 20th behind a new one.
C12_OnlyClearRemovesEntries ==
    [][ /\ pressed' = "clear" => Cleared
        /\ pressed' # "clear" =>
              /\ NoneRemoved(history.v, history'.v)
              /\ history_file' # history_file =>
                    \A old \in {FileEntries(history_file)}, new \in {FileEntries(history_file')} :
                        NoneRemoved(old, new)
      ]_vars

\* Clear History was pressed in a session that had saved an entry and feedback.
C12_Witness ==
    /\ pressed = "clear"
    /\ clock = MaxRuns
    /\ history_file = AbsentFile
    /\ history = PyList(<<>>)
    /\ Len(feedback_log) = 1
    /\ feedback_file = TextFile(JsonDump(PyList(feedback_log), 0))

\* C14 as stated: every entry of lecture_history.json carries the audio_name of
\* the audio whose transcript its artifact was generated from.
C14_ArtifactUnderItsAudio ==
    \A n \in 1..Len(entry_sources) :
        Lookup(FileEntries(history_file)[n], <<"audio_name">>) = entry_sources[n]

----------------------------------------------------------------------------
(* SpecRace: two sessions of the app on one machine, each inside save_history *)
(* or save_feedback.  A save is three steps on the shared file: the read of   *)
(* its load, open(..., 'w'), which empties the file, and the write of         *)
(* json.dump when the with block closes it.  Nothing in the source holds a    *)
(* lock, so the steps of the two sessions interleave freely.                  *)

Sessions == {1, 2}

\* Saves a session makes.
MaxSavesEach == 2

\* The k-th entry session s hands to the save function of store: session 1 works
\* on audio "a", session 2 on audio "b".
RaceEntry(store, s, k) ==
    IF store = "history"
    THEN format_history_entry(Str1(<<"a", "b">>[s]), "Notes", Str1("n"), k)
    ELSE FeedbackEntry(k, Str1(<<"a", "b">>[s]), "Notes", 5, <<"c">>)

StoreFile(store) == IF store = "history" THEN history_file ELSE feedback_file

\* What the save function of store makes of the file at its first lines.
LoadedBy(store, file) == IF store = "history" THEN load_history(file) ELSE load_feedback(file)

\* Mutant: the text written is made from the file as it is at the write.
DumpedBy_rereading(store, file, loaded, entry) ==
    IF store = "history" THEN InsertAndDump(file, load_history(file), entry).file
    ELSE AppendAndDump(file, load_feedback(file), entry).file

\* The text json.dump writes: made from the list the function loaded.
DumpedBy(store, file, loaded, entry) ==
    IF store = "history" THEN InsertAndDump(file, loaded, entry).file
    ELSE AppendAndDump(file, loaded, entry).file

InitRace ==
    /\ gemini_loaded = TRUE
    /\ InitGenVars
    /\ history_file \in EarlierHistoryFiles
    /\ store_out = [op |-> "none", raised |-> "", ret |-> PyNone]
    /\ saved_log = <<>>
    /\ only_saves = TRUE
    /\ InitAppVars
    /\ InitFeedbackVars
    /\ writers = [s \in Sessions |->
                     [pc |-> "idle", store |-> "history", loaded |-> Returned(PyList(<<>>)),
                      entry |-> PyNone, saves |-> 0]]

\* Session s enters save_history or save_feedback and reads the file.  A load that
\* raises, or a value without insert or append, ends the call.
RaceLoad(s) ==
    /\ writers[s].pc = "idle"
    /\ writers[s].saves < MaxSavesEach
    /\ \E store \in {"history", "feedback"} :
          \E loaded \in {LoadedBy(store, StoreFile(store))} :
             writers' = [writers EXCEPT ![s] =
                            [pc |-> IF loaded.raised = "" /\ IsList(loaded.ret)
                                    THEN "loaded" ELSE "idle",
                             store |-> store,
                             loaded |-> loaded,
                             entry |-> RaceEntry(store, s, writers[s].saves + 1),
                             saves |-> writers[s].saves + 1]]
    /\ UNCHANGED <<gemini_loaded, genVars, storeVars, appVars, feedbackVars>>

\* The file of store with text in it; the other file as it is.
FileBecomes(store, text) ==
    /\ history_file' = IF store = "history" THEN text ELSE history_file
    /\ feedback_file' = IF store = "feedback" THEN text ELSE feedback_file

\* with open(FILE, 'w') as f: the file is emptied.
RaceOpen(s) ==
    /\ writers[s].pc = "loaded"
    /\ FileBecomes(writers[s].store, TextFile(<<>>))
    /\ writers' = [writers EXCEPT ![s].pc = "opened"]
    /\ UNCHANGED <<gemini_loaded, genVars, store_out, saved_log, only_saves, appVars,
                   feedback_out, feedback_log>>

\* json.dump(..., f, indent=4) and the end of the with block: the text is in the
\* file and the call returns.
RaceDump(s) ==
    /\ writers[s].pc = "opened"
    /\ FileBecomes(writers[s].store,
                   DumpedBy(writers[s].store, StoreFile(writers[s].store),
                            writers[s].loaded, writers[s].entry))
    /\ saved_log' = IF writers[s].store = "history"
                    THEN Append(saved_log, writers[s].entry) ELSE saved_log
    /\ feedback_log' = IF writers[s].store = "feedback"
                       THEN Append(feedback_log, writers[s].entry) ELSE feedback_log
    /\ writers' = [writers EXCEPT ![s].pc = "idle"]
    /\ UNCHANGED <<gemini_loaded, genVars, store_out, only_saves, appVars, feedback_out>>

NextRace == \E s \in Sessions : RaceLoad(s) \/ RaceOpen(s) \/ RaceDump(s)

SpecRace == InitRace /\ [][NextRace]_vars

----------------------------------------------------------------------------
(* Properties of two sessions, checked under SpecRace. *)

\* The entries the save function of store writes for a list it loaded.
WrittenFor(store, items, entry) ==
    IF store = "history" THEN InsertAndCut(items, entry) ELSE Append(items, entry)

\* Session s ends its save in this step.
Returns(s) == writers[s].pc = "opened" /\ writers'[s].pc = "idle"

\* C13: save_history and save_feedback are unguarded read-modify-writes: when a
\* save returns, the file holds the entry with the list that save loaded at its
\* start and nothing else, whatever the other session wrote in between.
C13_UnguardedReadModifyWrite ==
    [][ \A s \in Sessions :
           Returns(s) =>
              \E file \in {IF writers[s].store = "history" THEN history_file'
                           ELSE feedback_file'} :
                 EntriesOf(JsonLoads(file.text)) =
                     WrittenFor(writers[s].store, writers[s].loaded.ret.v, writers[s].entry)
      ]_vars

\* Every entry of log is among entries.
AllIn(log, entries) ==
    \A k \in 1..Len(log) : \E n \in 1..Len(entries) : entries[n] = log[k]

\* Both sessions have returned from a save_history and both from a save_feedback,
\* each pair having loaded the same content, and in each file the entry of one
\* session is missing.
C13_Witness ==
    /\ \A s \in Sessions : writers[s].pc = "idle" /\ writers[s].saves = 2
    /\ writers[1].store = writers[2].store
    /\ writers[1].loaded = writers[2].loaded
    /\ Len(saved_log) = 2
    /\ Len(feedback_log) = 2
    /\ ~AllIn(saved_log, FileEntries(history_file))
    /\ ~AllIn(feedback_log, FileEntries(feedback_file))

====
